---- MODULE Spec2Model ----
(***************************************************************************)
(* The task queue of agentswarm (src/orchestrator.py, class TaskQueue),    *)
(* the reconciler sweep that writes to it (src/agents/reconciler_agent.py) *)
(* and the callers that race on it.  The tasks table is one variable; each *)
(* SQL statement is one atomic step; claim_task, which issues several      *)
(* statements, is split at the statement boundaries.  Further sections     *)
(* model the rate limiter and the git workspace of the workers             *)
(* (src/agents/worker.py) and the supervisor's run (src/main.py).          *)
(***************************************************************************)
EXTENDS Integers, Sequences, FiniteSets, TLC

\* ---------------------------------------------------------------- bounds
MaxTasks == 2
NumWorkers == 2
MaxClock == 2
MaxReports == 2
MaxSweeps == 1
RetriesCap == 3
\* The worker timeout of the stall sweep, in ticks of the model's clock.
StallAfter == 0
\* The rate limiter: calls per window, the window (60 s) in ticks of the
\* limiter's clock, and how far that clock runs.
Rpm == 2
WindowTicks == 3
MaxLimiterTime == 6
\* How many times a worker takes up its task in the workspace.
MaxAttempts == 2

\* ------------------------------------------------------ program constants
MAX_RETRIES == 3
MAX_WORKERS == 15
DEFAULT_PRIORITY == 5
FIX_PRIORITY == 1
NULL == 0

NullText == "NULL"
None == <<>>

\* task_id is "task-" followed by 8 hex digits (uuid4().hex[:8]).  An id is
\* modelled as <<head, rest>>: head stands for the 3 hex digits that survive
\* task_id[:8] ("task-" takes the other 5 characters), rest for the 5 digits
\* that the slice drops.
TaskIdOf(i) == <<(i - 1) \div 2, (i - 1) % 2>>
TaskIds == {TaskIdOf(i) : i \in 1..MaxTasks}
WorkerIds == 1..NumWorkers
Priorities == {FIX_PRIORITY, DEFAULT_PRIORITY}
DepSets(task_id) == {{}} \cup {{d} : d \in TaskIds \ {task_id}}
Results == {"result-a", "result-b"}
Errors == {"error"}

VARIABLES tasks, now, call, reconciler, ops, limiter, throttle, repo, job,
          supervisor, worker, sweeper

queueVars == <<tasks, now, call, reconciler, ops>>
limiterVars == <<limiter, throttle>>
gitVars == <<repo, job>>
runVars == <<supervisor, worker, sweeper>>
vars == <<tasks, now, call, reconciler, ops, limiter, throttle, repo, job,
          supervisor, worker, sweeper>>

\* The workspace: file paths, the trunk branch, and a tree (what a commit or
\* the working directory holds at each path: NULL, or the worker whose
\* content it is).
Paths == {"a.py", "b.py"}
Trunk == <<"main">>
EmptyTree == [p \in Paths |-> NULL]

\* ------------------------------------------------------------- the table
Rows == DOMAIN tasks

\* INSERT INTO tasks (task_id, title, description, priority, depends_on):
\* every other column takes its schema default; id is AUTOINCREMENT.
NewRow(tbl, priority, depends_on) ==
    [id |-> Cardinality(DOMAIN tbl) + 1,
     status |-> "pending",
     priority |-> priority,
     retries |-> 0,
     depends_on |-> depends_on,
     assigned_worker |-> NULL,
     branch_name |-> None,
     result |-> NullText,
     error |-> NullText,
     created_at |-> now,
     started_at |-> NULL,
     completed_at |-> NULL]

Insert(tbl, task_id, row) ==
    [t \in (DOMAIN tbl) \cup {task_id} |-> IF t = task_id THEN row ELSE tbl[t]]

\* branch_name = f"agent-{task_id[:8]}"
BranchName(task_id) == <<"agent", task_id[1]>>

IdleCall == [pc |-> "idle", pending |-> <<>>, ready |-> <<>>, ret |-> None]

\* main() before run_planner, and a process slot no worker runs in.
SupervisorInit(max_workers) ==
    [pc |-> "plan", max_workers |-> max_workers, plan |-> "none",
     started |-> FALSE, stats |-> [pending |-> 0, running |-> 0],
     running_workers |-> {}, exit_code |-> NULL, archive |-> FALSE]
NoWorker == [pc |-> "off", name |-> 0, result |-> "none", event |-> "none"]

InitOf(max_workers) ==
    /\ tasks = << >>
    /\ now = 1
    /\ call = [w \in WorkerIds |-> IdleCall]
    /\ reconciler = 0
    /\ ops = 0
    /\ limiter = [time |-> 0, lock |-> NULL, timestamps |-> <<>>, granted |-> <<>>]
    /\ throttle = [w \in WorkerIds |-> [pc |-> "idle", wait |-> 0]]
    /\ repo = [lock |-> NULL, head |-> Trunk, wt |-> EmptyTree,
               branches |-> [b \in {Trunk} |-> EmptyTree],
               base |-> [b \in {Trunk} |-> EmptyTree]]
    /\ job = [w \in WorkerIds |-> [pc |-> "idle", written |-> {}, attempts |-> 0]]
    /\ supervisor = SupervisorInit(max_workers)
    /\ worker = [w \in WorkerIds |-> NoWorker]
    /\ sweeper = "sleep"

Init == InitOf(MAX_WORKERS)

\* CURRENT_TIMESTAMP has a resolution of one second.
Tick ==
    /\ now < MaxClock
    /\ now' = now + 1
    /\ UNCHANGED <<tasks, call, reconciler, ops, limiterVars, gitVars, runVars>>

\* ------------------------------------------------------------ TaskQueue
add_task(task_id, priority, depends_on) ==
    /\ task_id \notin Rows
    /\ tasks' = Insert(tasks, task_id, NewRow(tasks, priority, depends_on))

\* INSERT OR REPLACE: an element takes the place of the row with its id.
RECURSIVE BatchInsertReplacing(_, _)
BatchInsertReplacing(tbl, batch) ==
    IF batch = <<>> THEN tbl
    ELSE LET e == Head(batch)
         IN BatchInsertReplacing(Insert(tbl, e.task_id, NewRow(tbl, e.priority, e.depends_on)),
                                 Tail(batch))

\* INSERT OR IGNORE, element by element, committed together.
RECURSIVE BatchInsert(_, _)
BatchInsert(tbl, batch) ==
    IF batch = <<>> THEN tbl
    ELSE LET e == Head(batch)
             nxt == IF e.task_id \in DOMAIN tbl THEN tbl
                    ELSE Insert(tbl, e.task_id, NewRow(tbl, e.priority, e.depends_on))
         IN BatchInsert(nxt, Tail(batch))

add_tasks_batch(batch) ==
    /\ tasks' = BatchInsert(tasks, batch)

\* ORDER BY priority DESC: the sort direction reversed.
OrderKeyLeqDesc(a, b) ==
    \/ tasks[a].priority > tasks[b].priority
    \/ /\ tasks[a].priority = tasks[b].priority
       /\ tasks[a].created_at <= tasks[b].created_at

\* SELECT ... WHERE status = 'pending' ORDER BY priority ASC, created_at ASC.
\* SQL leaves the order of rows with equal sort keys open.
OrderKeyLeq(a, b) ==
    \/ tasks[a].priority < tasks[b].priority
    \/ /\ tasks[a].priority = tasks[b].priority
       /\ tasks[a].created_at <= tasks[b].created_at

SelectPending ==
    LET P == {t \in Rows : tasks[t].status = "pending"}
        n == Cardinality(P)
    IN {s \in [1..n -> P] :
            /\ \A i, j \in 1..n : i # j => s[i] # s[j]
            /\ \A i, j \in 1..n : i < j => OrderKeyLeq(s[i], s[j])}

\* The part of the filter loop that needs no query: rows with no
\* dependencies go straight to ready.
RECURSIVE NoDepsPrefix(_, _)
NoDepsPrefix(pending, ready) ==
    IF pending = <<>> \/ tasks[Head(pending)].depends_on # {}
    THEN [pending |-> pending, ready |-> ready]
    ELSE NoDepsPrefix(Tail(pending), Append(ready, Head(pending)))

\* A count that is always 0: every dependency passes.
PendingDepsNone(deps) == 0

\* The count without its "AND status != 'done'".
PendingDepsCountsDone(deps) == Cardinality(deps \cap Rows)

\* SELECT COUNT(*) FROM tasks WHERE task_id IN (deps) AND status != 'done'
PendingDeps(deps) ==
    Cardinality({d \in deps \cap Rows : tasks[d].status # "done"})

\* Where claim_task stands once the filter loop has got as far as it can
\* without another query.
Filtered(f) ==
    IF f.pending # <<>> THEN [pc |-> "deps", pending |-> f.pending, ready |-> f.ready, ret |-> None]
    ELSE IF f.ready = <<>> THEN IdleCall
    ELSE [pc |-> "update", pending |-> <<>>, ready |-> f.ready, ret |-> None]

get_ready_tasks_select(w) ==
    /\ call[w].pc = "idle"
    /\ \E s \in SelectPending :
          call' = [call EXCEPT ![w] = Filtered(NoDepsPrefix(s, <<>>))]
    /\ tasks' = tasks

get_ready_tasks_deps(w) ==
    /\ call[w].pc = "deps"
    /\ LET t == Head(call[w].pending)
           ready == IF PendingDeps(tasks[t].depends_on) = 0
                    THEN Append(call[w].ready, t) ELSE call[w].ready
       IN call' = [call EXCEPT ![w] = Filtered(NoDepsPrefix(Tail(call[w].pending), ready))]
    /\ tasks' = tasks

\* The UPDATE without its "AND status = 'pending'".
ClaimMatchesAnyStatus(task_id) == task_id \in Rows

\* UPDATE tasks SET status = 'running', ... WHERE task_id = ? AND status = 'pending'
ClaimMatches(task_id) == task_id \in Rows /\ tasks[task_id].status = "pending"

claim_task_update(w) ==
    /\ call[w].pc = "update"
    /\ LET task_id == Head(call[w].ready)
       IN IF ClaimMatches(task_id)
          THEN /\ tasks' = [tasks EXCEPT ![task_id].status = "running",
                                         ![task_id].assigned_worker = w,
                                         ![task_id].branch_name = BranchName(task_id),
                                         ![task_id].started_at = now]
               /\ call' = [call EXCEPT ![w] = [IdleCall EXCEPT !.ret = task_id]]
          ELSE /\ tasks' = tasks
               /\ call' = [call EXCEPT ![w] = IdleCall]

\* complete_task that also starts the retry count over.
complete_task_resets_retries(task_id, result, status) ==
    /\ task_id \in Rows
    /\ tasks' = [tasks EXCEPT ![task_id].status = status,
                              ![task_id].result = result,
                              ![task_id].retries = 0,
                              ![task_id].completed_at = now]

\* UPDATE tasks SET status = ?, result = ?, completed_at = CURRENT_TIMESTAMP
\* WHERE task_id = ?   (no condition on the row's status or worker)
complete_task(task_id, result, status) ==
    /\ task_id \in Rows
    /\ tasks' = [tasks EXCEPT ![task_id].status = status,
                              ![task_id].result = result,
                              ![task_id].completed_at = now]

\* fail_task that writes the status failed instead of re-queueing.
fail_task_marks_failed(task_id, error) ==
    /\ task_id \in Rows
    /\ tasks' = [tasks EXCEPT ![task_id].status = "failed",
                              ![task_id].error = error,
                              ![task_id].retries = @ + 1,
                              ![task_id].started_at = NULL]

\* fail_task that forgets "retries = retries + 1".
fail_task_no_increment(task_id, error) ==
    /\ task_id \in Rows
    /\ tasks' = [tasks EXCEPT ![task_id].status = "pending",
                              ![task_id].error = error,
                              ![task_id].started_at = NULL]

\* fail_task that clears started_at but leaves the status as it was.
fail_task_keeps_status(task_id, error) ==
    /\ task_id \in Rows
    /\ tasks' = [tasks EXCEPT ![task_id].error = error,
                              ![task_id].retries = @ + 1,
                              ![task_id].started_at = NULL]

\* UPDATE tasks SET status = 'pending', error = ?, retries = retries + 1,
\* started_at = NULL WHERE task_id = ?
fail_task(task_id, error) ==
    /\ task_id \in Rows
    /\ tasks' = [tasks EXCEPT ![task_id].status = "pending",
                              ![task_id].error = error,
                              ![task_id].retries = @ + 1,
                              ![task_id].started_at = NULL]

\* UPDATE tasks SET status = 'fix_needed', error = ?,
\* completed_at = CURRENT_TIMESTAMP WHERE task_id = ?
mark_fix_needed(task_id, error) ==
    /\ task_id \in Rows
    /\ tasks' = [tasks EXCEPT ![task_id].status = "fix_needed",
                              ![task_id].error = error,
                              ![task_id].completed_at = now]

\* ----------------------------------------------------------- reconciler
\* One sweep.  check_syntax passes or not; when it fails run_once adds a
\* priority-1 task.  Then check_stalled_workers reads
\* config.WORKER_TIMEOUT_SECONDS, which config.py does not define (it defines
\* WORKER_TIMEOUT): the AttributeError ends run_once before the stall sweep
\* or the rework sweep reads a row, and background_loop swallows it.  The
\* sweep's only statement on the tasks table is that INSERT.
\* add_task draws its id from uuid4: an id no row has and no depends_on names.
FreshId(task_id) ==
    /\ task_id \notin Rows
    /\ \A t \in Rows : task_id \notin tasks[t].depends_on

RunOnceBody(ok) ==
    IF ok THEN tasks' = tasks
    ELSE \E task_id \in TaskIds :
            FreshId(task_id) /\ add_task(task_id, FIX_PRIORITY, {})

run_once(ok) ==
    /\ reconciler < MaxSweeps
    /\ reconciler' = reconciler + 1
    /\ RunOnceBody(ok)

\* ------------------------------------------------------------ the system
\* What the planner hands to add_tasks_batch: elements with a priority and a
\* depends_on list.  Ids are opaque, so an element takes the next unused id
\* or repeats the id of the element before it.
BatchElems(task_id) == [task_id : {task_id}, priority : Priorities, depends_on : DepSets(task_id)]

Batches ==
    {<<e>> : e \in BatchElems(TaskIdOf(1))}
    \cup {<<e, f>> : e \in BatchElems(TaskIdOf(1)),
                     f \in BatchElems(TaskIdOf(1)) \cup BatchElems(TaskIdOf(2))}

\* complete_task, fail_task and mark_fix_needed report the outcome of an
\* attempt; a run makes at most MaxReports such calls.
Reported == ops < MaxReports /\ ops' = ops + 1

Next ==
    \/ Tick
    \/ \E b \in Batches :
          Rows = {} /\ add_tasks_batch(b) /\ UNCHANGED <<now, call, reconciler, ops, limiterVars, gitVars, runVars>>
    \/ \E w \in WorkerIds :
          get_ready_tasks_select(w) /\ UNCHANGED <<now, reconciler, ops, limiterVars, gitVars, runVars>>
    \/ \E w \in WorkerIds :
          get_ready_tasks_deps(w) /\ UNCHANGED <<now, reconciler, ops, limiterVars, gitVars, runVars>>
    \/ \E w \in WorkerIds :
          claim_task_update(w) /\ UNCHANGED <<now, reconciler, ops, limiterVars, gitVars, runVars>>
    \/ \E t \in Rows, r \in Results :
          complete_task(t, r, "done") /\ Reported /\ UNCHANGED <<now, call, reconciler, limiterVars, gitVars, runVars>>
    \/ \E t \in Rows, e \in Errors :
          fail_task(t, e) /\ Reported /\ UNCHANGED <<now, call, reconciler, limiterVars, gitVars, runVars>>
    \/ \E t \in Rows, e \in Errors :
          mark_fix_needed(t, e) /\ Reported /\ UNCHANGED <<now, call, reconciler, limiterVars, gitVars, runVars>>
    \/ \E ok \in BOOLEAN :
          run_once(ok) /\ UNCHANGED <<now, call, ops, limiterVars, gitVars, runVars>>

Spec == Init /\ [][Next]_vars

\* The retry path on its own: attempts that fail every time, up to
\* RetriesCap failures of a task, with the reconciler sweeping in between.
NextRetry ==
    \/ Tick
    \/ \E b \in Batches :
          Rows = {} /\ add_tasks_batch(b) /\ UNCHANGED <<now, call, reconciler, ops, limiterVars, gitVars, runVars>>
    \/ \E w \in WorkerIds :
          get_ready_tasks_select(w) /\ UNCHANGED <<now, reconciler, ops, limiterVars, gitVars, runVars>>
    \/ \E w \in WorkerIds :
          get_ready_tasks_deps(w) /\ UNCHANGED <<now, reconciler, ops, limiterVars, gitVars, runVars>>
    \/ \E w \in WorkerIds :
          claim_task_update(w) /\ UNCHANGED <<now, reconciler, ops, limiterVars, gitVars, runVars>>
    \/ \E t \in Rows, e \in Errors :
          /\ tasks[t].status = "running"
          /\ tasks[t].retries < RetriesCap
          /\ fail_task(t, e) /\ UNCHANGED <<now, call, reconciler, ops, limiterVars, gitVars, runVars>>
    \/ \E ok \in BOOLEAN :
          run_once(ok) /\ UNCHANGED <<now, call, ops, limiterVars, gitVars, runVars>>

SpecRetry == Init /\ [][NextRetry]_vars

\* add_tasks_batch called on a table that is in use: batches arrive, while
\* the table has room, between claims and failed attempts (one per task).
NextBatch ==
    \/ Tick
    \/ \E b \in Batches :
          /\ Cardinality(Rows) < MaxTasks
          /\ add_tasks_batch(b) /\ UNCHANGED <<now, call, reconciler, ops, limiterVars, gitVars, runVars>>
    \/ \E w \in WorkerIds :
          get_ready_tasks_select(w) /\ UNCHANGED <<now, reconciler, ops, limiterVars, gitVars, runVars>>
    \/ \E w \in WorkerIds :
          get_ready_tasks_deps(w) /\ UNCHANGED <<now, reconciler, ops, limiterVars, gitVars, runVars>>
    \/ \E w \in WorkerIds :
          claim_task_update(w) /\ UNCHANGED <<now, reconciler, ops, limiterVars, gitVars, runVars>>
    \/ \E t \in Rows, e \in Errors :
          /\ tasks[t].status = "running"
          /\ tasks[t].retries < 1
          /\ fail_task(t, e) /\ UNCHANGED <<now, call, reconciler, ops, limiterVars, gitVars, runVars>>

SpecBatch == Init /\ [][NextBatch]_vars

\* --------------------------------------------------------- rate limiter
\* WorkerAgent._throttle_for_rate_limit.  limiter is what the processes
\* share: the clock, the holder of the flock on the lock file, the
\* timestamps in the state file, and (for the record) the times of the most
\* recent Rpm + 1 reservations.  throttle is where each process stands.

\* timestamps = [t for t in timestamps if now - float(t) < 60.0]
LiveTimestamps(timestamps, time) ==
    LET Live(t) == time - t < WindowTicks
    IN SelectSeq(timestamps, Live)

\* The cap test with > in place of >=.
WindowFullOffByOne(timestamps) == Len(timestamps) > Rpm

\* if len(timestamps) >= rpm
WindowFull(timestamps) == Len(timestamps) >= Rpm

\* wait_seconds = max(0.5, 60.0 - (now - oldest)): never zero.
WaitSeconds(timestamps, time) ==
    LET oldest == CHOOSE t \in {timestamps[i] : i \in DOMAIN timestamps} :
                     \A i \in DOMAIN timestamps : t <= timestamps[i]
        wait == WindowTicks - (time - oldest)
    IN IF wait > 1 THEN wait ELSE 1

\* The lock kept through the sleep.
flock_un_skipped(holder) == holder

\* fcntl.flock(lockf, fcntl.LOCK_UN)
flock_un(holder) == NULL

LastGrants(granted) == IF Len(granted) > Rpm + 1 THEN Tail(granted) ELSE granted

\* call_api enters _throttle_for_rate_limit: the top of its while loop.
throttle_enter(w) ==
    /\ throttle[w].pc = "idle"
    /\ throttle' = [throttle EXCEPT ![w] = [pc |-> "open", wait |-> 0]]
    /\ limiter' = limiter

\* with open(lock_path, "w") as lockf: fcntl.flock(lockf, fcntl.LOCK_EX)
throttle_flock(w) ==
    /\ throttle[w].pc = "open"
    /\ limiter.lock = NULL
    /\ limiter' = [limiter EXCEPT !.lock = w]
    /\ throttle' = [throttle EXCEPT ![w].pc = "locked"]

\* Under the lock: read the state file, drop what left the window, then
\* either compute the wait or append now and write the file; unlock.
throttle_reserve(w) ==
    /\ throttle[w].pc = "locked"
    /\ LET timestamps == LiveTimestamps(limiter.timestamps, limiter.time)
       IN IF WindowFull(timestamps)
          THEN /\ limiter' = [limiter EXCEPT !.lock = flock_un(w)]
               /\ throttle' = [throttle EXCEPT ![w] =
                     [pc |-> "retry_sleep", wait |-> WaitSeconds(timestamps, limiter.time)]]
          ELSE /\ limiter' = [limiter EXCEPT
                     !.lock = flock_un(w),
                     !.timestamps = Append(timestamps, limiter.time),
                     !.granted = LastGrants(Append(limiter.granted, limiter.time))]
               /\ throttle' = [throttle EXCEPT ![w] = [pc |-> "jitter_sleep", wait |-> 0]]

\* time.sleep(min(wait_seconds, 5.0)); continue
throttle_retry(w) ==
    /\ throttle[w].pc = "retry_sleep"
    /\ throttle' = [throttle EXCEPT ![w] = [pc |-> "open", wait |-> 0]]
    /\ limiter' = limiter

\* time.sleep(random.uniform(2.0, 3.0)); return
throttle_return(w) ==
    /\ throttle[w].pc = "jitter_sleep"
    /\ throttle' = [throttle EXCEPT ![w] = [pc |-> "idle", wait |-> 0]]
    /\ limiter' = limiter

\* time.time() moves on.
LimiterTick ==
    /\ limiter.time < MaxLimiterTime
    /\ limiter' = [limiter EXCEPT !.time = @ + 1]
    /\ throttle' = throttle

NextRate ==
    \/ LimiterTick /\ UNCHANGED <<queueVars, gitVars, runVars>>
    \/ \E w \in WorkerIds : throttle_enter(w) /\ UNCHANGED <<queueVars, gitVars, runVars>>
    \/ \E w \in WorkerIds : throttle_flock(w) /\ UNCHANGED <<queueVars, gitVars, runVars>>
    \/ \E w \in WorkerIds : throttle_reserve(w) /\ UNCHANGED <<queueVars, gitVars, runVars>>
    \/ \E w \in WorkerIds : throttle_retry(w) /\ UNCHANGED <<queueVars, gitVars, runVars>>
    \/ \E w \in WorkerIds : throttle_return(w) /\ UNCHANGED <<queueVars, gitVars, runVars>>

SpecRate == Init /\ [][NextRate]_vars

\* ------------------------------------------------------------ workspace
\* The git workspace the workers share (WorkerAgent.init_git_repo,
\* setup_branch, write_files, commit_and_merge).  repo is the repository
\* main.py set up: the holder of the flock on .git/agentswarm.lock, HEAD, the
\* working directory, the tree at the tip of each branch and, for each task
\* branch, the tree of its merge base with main.  job is where each worker
\* stands with its task.
TaskOf(w) == TaskIdOf(2 * w - 1)
BranchOf(w) == BranchName(TaskOf(w))

\* The paths whose content in the working directory is not what HEAD has.
Dirty(r) == {p \in Paths : r.wt[p] # r.branches[r.head][p]}

\* git checkout <branch>: refused (the exit status is not looked at) when the
\* branch does not exist or a dirty path differs between HEAD and the branch;
\* otherwise HEAD moves and dirty paths are carried over.
git_checkout(r, b) ==
    IF /\ b \in DOMAIN r.branches
       /\ \A p \in Dirty(r) : r.branches[b][p] = r.branches[r.head][p]
    THEN [r EXCEPT !.head = b,
                   !.wt = [p \in Paths |-> IF p \in Dirty(r) THEN r.wt[p]
                                           ELSE r.branches[b][p]]]
    ELSE r

\* git branch -D <branch>: refused for the branch HEAD is on.
git_branch_delete(r, b) ==
    IF b \in DOMAIN r.branches /\ b # r.head
    THEN [r EXCEPT !.branches = [x \in (DOMAIN r.branches) \ {b} |-> r.branches[x]],
                   !.base = [x \in (DOMAIN r.base) \ {b} |-> r.base[x]]]
    ELSE r

\* git checkout -b <branch>, for a branch that does not exist: the branch
\* starts at HEAD's commit, the working directory is left as it is.
git_checkout_new(r, b) ==
    [r EXCEPT !.head = b,
              !.branches = Insert(r.branches, b, r.branches[r.head]),
              !.base = Insert(r.base, b, IF r.head = Trunk THEN r.branches[Trunk]
                                         ELSE r.base[r.head])]

\* git add -A; git commit: whatever the working directory holds goes into a
\* commit on the branch HEAD is on (nothing happens when nothing is dirty).
git_commit_all(r) == [r EXCEPT !.branches[r.head] = r.wt]

\* The paths changed on both sides of a merge of b into HEAD, differently.
MergeConflicts(r, b) ==
    {p \in Paths : /\ r.branches[b][p] # r.base[b][p]
                   /\ r.branches[r.head][p] # r.base[b][p]
                   /\ r.branches[r.head][p] # r.branches[b][p]}

\* git merge --no-ff <branch> without conflicts.
git_merge(r, b) ==
    LET merged == [p \in Paths |-> IF r.branches[b][p] # r.base[b][p]
                                   THEN r.branches[b][p]
                                   ELSE r.branches[r.head][p]]
    IN [r EXCEPT !.branches[r.head] = merged, !.wt = merged, !.base[b] = r.branches[b]]

\* The three git commands of setup_branch; only the last has check=True.
\* git checkout -b exits non-zero when the branch is still there, or for a
\* reason outside the repository's content (git_fails).
SetupBranchBody(r, b, git_fails) ==
    LET r1 == git_checkout(r, Trunk)
        r2 == git_branch_delete(r1, b)
    IN IF b \in DOMAIN r2.branches \/ git_fails
       THEN [repo |-> r2, raised |-> TRUE]
       ELSE [repo |-> git_checkout_new(r2, b), raised |-> FALSE]

\* A failed merge that is not aborted: its result stays on main.
CommitAndMergeNoAbort(r, b) ==
    LET r1 == git_commit_all(r)
        r2 == git_checkout(r1, Trunk)
    IN IF b \notin DOMAIN r2.branches
       THEN [repo |-> r2, merged |-> FALSE]
       ELSE [repo |-> git_merge(r2, b), merged |-> MergeConflicts(r2, b) = {}]

\* The git commands of commit_and_merge.
CommitAndMergeBody(r, b) ==
    LET r1 == git_commit_all(r)
        r2 == git_checkout(r1, Trunk)
    IN IF b \notin DOMAIN r2.branches \/ MergeConflicts(r2, b) # {}
       THEN [repo |-> git_checkout(r2, b), merged |-> FALSE]
       ELSE [repo |-> git_merge(r2, b), merged |-> TRUE]

\* A lock that does not exclude.
GitLockShared(lock) == TRUE

\* fcntl.flock(lock, fcntl.LOCK_EX) returns when nobody holds the lock.
GitLockFree(lock) == lock = NULL

LockedPc(pc) ==
    CASE pc = "init" -> "init_locked"
      [] pc = "branch" -> "branch_locked"
      [] pc = "commit" -> "commit_locked"

\* claim_task has handed the worker its task: execute_task starts.
execute_task(w) ==
    /\ job[w].pc \in {"idle", "failed"}
    /\ job[w].attempts < MaxAttempts
    /\ job' = [job EXCEPT ![w] = [pc |-> "init", written |-> {}, attempts |-> @.attempts + 1]]
    /\ repo' = repo

\* lock = self.git_lock(); fcntl.flock(lock, fcntl.LOCK_EX)
git_lock(w) ==
    /\ job[w].pc \in {"init", "branch", "commit"}
    /\ GitLockFree(repo.lock)
    /\ repo' = [repo EXCEPT !.lock = w]
    /\ job' = [job EXCEPT ![w].pc = LockedPc(@)]

\* .git exists (git_lock itself creates the directory): nothing to run.
init_git_repo(w) ==
    /\ job[w].pc = "init_locked"
    /\ repo' = [repo EXCEPT !.lock = NULL]
    /\ job' = [job EXCEPT ![w].pc = "branch"]

\* The finally clause unlocks whether or not git checkout -b raised; when it
\* raised, execute_task's except clause calls fail_task.
setup_branch(w, git_fails) ==
    /\ job[w].pc = "branch_locked"
    /\ LET out == SetupBranchBody(repo, BranchOf(w), git_fails)
       IN /\ repo' = [out.repo EXCEPT !.lock = NULL]
          /\ job' = [job EXCEPT ![w].pc = IF out.raised THEN "failed" ELSE "work"]

\* Content written by worker w that the syntax check refused: the file is
\* written before it is checked and is not removed when the check fails.
Rejected(w) == 0 - w
IsRejected(content) == content < 0

\* write_files, outside any lock: the file goes into the shared working
\* directory; a failed syntax check raises.
write_files(w, path, ok) ==
    /\ job[w].pc = "work"
    /\ repo' = [repo EXCEPT !.wt[path] = IF ok THEN w ELSE Rejected(w)]
    /\ job' = [job EXCEPT ![w].written = {path},
                          ![w].pc = IF ok THEN "commit" ELSE "failed"]

\* merged -> package_output, return success; otherwise mark_fix_needed.
commit_and_merge(w) ==
    /\ job[w].pc = "commit_locked"
    /\ LET out == CommitAndMergeBody(repo, BranchOf(w))
       IN /\ repo' = [out.repo EXCEPT !.lock = NULL]
          /\ job' = [job EXCEPT ![w].pc = IF out.merged THEN "merged" ELSE "fix_needed"]

\* WorkerAgent.run: complete_task(task_id, json.dumps(result))
task_done(w) ==
    /\ job[w].pc = "merged"
    /\ job' = [job EXCEPT ![w].pc = "done"]
    /\ repo' = repo

NextGit ==
    \/ \E w \in WorkerIds : execute_task(w) /\ UNCHANGED <<queueVars, limiterVars, runVars>>
    \/ \E w \in WorkerIds : git_lock(w) /\ UNCHANGED <<queueVars, limiterVars, runVars>>
    \/ \E w \in WorkerIds : init_git_repo(w) /\ UNCHANGED <<queueVars, limiterVars, runVars>>
    \/ \E w \in WorkerIds, git_fails \in BOOLEAN :
          setup_branch(w, git_fails) /\ UNCHANGED <<queueVars, limiterVars, runVars>>
    \/ \E w \in WorkerIds, path \in Paths, ok \in BOOLEAN :
          write_files(w, path, ok) /\ UNCHANGED <<queueVars, limiterVars, runVars>>
    \/ \E w \in WorkerIds : commit_and_merge(w) /\ UNCHANGED <<queueVars, limiterVars, runVars>>
    \/ \E w \in WorkerIds : task_done(w) /\ UNCHANGED <<queueVars, limiterVars, runVars>>

SpecGit == Init /\ [][NextGit]_vars

\* ------------------------------------------------------------- the run
\* main() of src/main.py with the worker processes it spawns
\* (WorkerAgent.run) and the reconciler thread.  supervisor is where main()
\* stands: the planner's outcome, whether the reconciler thread was started,
\* the last get_stats, the processes in running_workers, and how the process
\* ended.  worker is where each process slot stands: off (no process), claim
\* (inside claim_task), exec (inside execute_task), returned (execute_task
\* has returned its result), dead (run() has returned, not yet reaped).
\* The task a worker holds is call[w].ret.  The table names a worker by its
\* slot; worker[w].name is the n of the "worker-<n>" string main() builds.

\* MAX_WORKERS comes from the environment: a run starts with any small cap.
InitRun == \E max_workers \in 1..NumWorkers : InitOf(max_workers)

\* A planner error that main() does not act on.
PlanFailedGoesOn(s) == [s EXCEPT !.plan = "error", !.pc = "start"]

\* plan_result['status'] == 'error': sys.exit(1).
PlanFailed(s) == [s EXCEPT !.plan = "error", !.pc = "exited", !.exit_code = 1]

\* PlannerAgent.run: plan() raises (API error, unparsable answer) and run
\* returns status error, or the task list goes to add_tasks_batch.
run_planner(planned) ==
    /\ supervisor.pc = "plan"
    /\ IF planned = <<>>
       THEN /\ supervisor' = PlanFailed(supervisor)
            /\ tasks' = tasks
       ELSE /\ add_tasks_batch(planned)
            /\ supervisor' = [supervisor EXCEPT !.plan = "success", !.pc = "start"]
    /\ UNCHANGED <<worker, call, reconciler>>

\* reconciler.start_background(config.RECONCILER_INTERVAL)
start_background ==
    /\ supervisor.pc = "start"
    /\ supervisor' = [supervisor EXCEPT !.started = TRUE, !.pc = "stats"]
    /\ UNCHANGED <<tasks, worker, call, reconciler>>

\* SELECT status, COUNT(*) FROM tasks GROUP BY status
get_stats ==
    [pending |-> Cardinality({t \in Rows : tasks[t].status = "pending"}),
     running |-> Cardinality({t \in Rows : tasks[t].status = "running"})]

supervisor_get_stats ==
    /\ supervisor.pc = "stats"
    /\ supervisor' = [supervisor EXCEPT !.stats = get_stats, !.pc = "loop"]
    /\ UNCHANGED <<tasks, worker, call, reconciler>>

Min(a, b) == IF a <= b THEN a ELSE b

\* slots computed without counting the workers already there.
SlotsIgnoringRunning(s) == s.max_workers

\* slots = config.MAX_WORKERS - len(running_workers)
Slots(s) == s.max_workers - Cardinality(s.running_workers)

\* for i in range(min(slots, stats['pending'])): spawn_worker
SpawnCount(s) ==
    IF Slots(s) > 0 /\ s.stats.pending > 0 THEN Min(Slots(s), s.stats.pending) ELSE 0

\* The process slots without a process, and the n lowest of them.
FreeSlots == {w \in WorkerIds : worker[w].pc = "off"}
LowestFree(n) ==
    {S \in SUBSET FreeSlots :
        /\ Cardinality(S) = n
        /\ \A x \in S, y \in FreeSlots \ S : x < y}

\* worker_id = f"worker-{len(running_workers) + i + 1}", for the i-th spawn
\* of the pass (from 0); running_workers has grown by i entries by then.
WorkerName(s, S, w) ==
    LET i == Cardinality({x \in S : x < w})
    IN (Cardinality(s.running_workers) + i) + i + 1

\* One pass of the while loop after get_stats: break, or spawn, then drop
\* from running_workers the processes that are no longer alive, then sleep.
supervisor_loop ==
    /\ supervisor.pc = "loop"
    /\ IF supervisor.stats.pending = 0 /\ supervisor.stats.running = 0
       THEN /\ supervisor' = [supervisor EXCEPT !.pc = "final"]
            /\ worker' = worker
       ELSE \E S \in LowestFree(SpawnCount(supervisor)) :
               LET registered == supervisor.running_workers \cup S
                   finished == {w \in registered : w \notin S /\ worker[w].pc = "dead"}
               IN /\ supervisor' = [supervisor EXCEPT !.running_workers = registered \ finished,
                                                      !.pc = "stats"]
                  /\ worker' = [w \in WorkerIds |->
                                   IF w \in S
                                   THEN [NoWorker EXCEPT !.pc = "claim",
                                                         !.name = WorkerName(supervisor, S, w)]
                                   ELSE IF w \in finished THEN NoWorker
                                   ELSE worker[w]]
    /\ UNCHANGED <<tasks, call, reconciler>>

\* An exception that leaves main() with exit status 0.
UncaughtExitsZero(s) == [s EXCEPT !.pc = "exited", !.exit_code = 0]

\* An exception that leaves main(): the interpreter prints the traceback and
\* the process ends with exit status 1.
Uncaught(s) == [s EXCEPT !.pc = "exited", !.exit_code = 1]

\* The final reconciler.run_once() of main(), outside any try: the
\* AttributeError of check_stalled_workers leaves main(), so reconciler.stop,
\* package_final_delivery and both return statements are never reached.
final_run_once(ok) ==
    /\ supervisor.pc = "final"
    /\ RunOnceBody(ok)
    /\ supervisor' = Uncaught(supervisor)
    /\ UNCHANGED <<worker, call, reconciler>>

\* background_loop: sweeps of the daemon thread, while the process lives.
background_run_once(ok) ==
    /\ supervisor.started
    /\ supervisor.pc # "exited"
    /\ run_once(ok)
    /\ UNCHANGED <<supervisor, worker, call>>

\* WorkerAgent.run: where the process stands once a step of claim_task has
\* been taken; claim_task returning None ends the loop and the process.
AfterClaimStep(w) ==
    IF call'[w].pc # "idle" THEN worker[w]
    ELSE IF call'[w].ret = None THEN [worker[w] EXCEPT !.pc = "dead"]
    ELSE [worker[w] EXCEPT !.pc = "exec", !.event = "started"]

run_claim_select(w) ==
    /\ worker[w].pc = "claim"
    /\ get_ready_tasks_select(w)
    /\ worker' = [worker EXCEPT ![w] = AfterClaimStep(w)]
    /\ UNCHANGED <<supervisor, reconciler, ops>>

run_claim_deps(w) ==
    /\ worker[w].pc = "claim"
    /\ get_ready_tasks_deps(w)
    /\ worker' = [worker EXCEPT ![w] = AfterClaimStep(w)]
    /\ UNCHANGED <<supervisor, reconciler, ops>>

run_claim_update(w) ==
    /\ worker[w].pc = "claim"
    /\ claim_task_update(w)
    /\ worker' = [worker EXCEPT ![w] = AfterClaimStep(w)]
    /\ UNCHANGED <<supervisor, reconciler, ops>>

Outcomes == {"success", "conflict", "failed"}

\* WorkerAgent.execute_task from its try to its return: the merge went
\* through (log done), the merge failed (log conflict, mark_fix_needed), or a
\* step raised (log error, fail_task).  A run has at most MaxReports
\* executions that do not succeed.
run_execute_task(w, outcome) ==
    /\ worker[w].pc = "exec"
    /\ LET task_id == call[w].ret
       IN CASE outcome = "success" ->
                 /\ tasks' = tasks /\ ops' = ops
                 /\ worker' = [worker EXCEPT ![w].pc = "returned", ![w].result = "success", ![w].event = "done"]
            [] outcome = "conflict" ->
                 /\ Reported
                 /\ \E e \in Errors : mark_fix_needed(task_id, e)
                 /\ worker' = [worker EXCEPT ![w].pc = "returned", ![w].result = "conflict", ![w].event = "conflict"]
            [] outcome = "failed" ->
                 /\ Reported
                 /\ \E e \in Errors : fail_task(task_id, e)
                 /\ worker' = [worker EXCEPT ![w].pc = "returned", ![w].result = "failed", ![w].event = "error"]
    /\ UNCHANGED <<supervisor, call, reconciler>>

\* WorkerAgent.run after execute_task: complete_task on success, then the
\* next claim_task.
run_complete_task(w) ==
    /\ worker[w].pc = "returned"
    /\ IF worker[w].result = "success"
       THEN complete_task(call[w].ret, "result-a", "done")
       ELSE tasks' = tasks
    /\ worker' = [worker EXCEPT ![w].pc = "claim", ![w].result = "none", ![w].event = "none"]
    /\ UNCHANGED <<supervisor, call, reconciler, ops>>

\* What the planner can return: a task list, or nothing (an error).
Planned == Batches \cup {<<>>}

SupervisorStep ==
    \/ \E planned \in Planned : run_planner(planned)
    \/ start_background
    \/ supervisor_get_stats
    \/ supervisor_loop
    \/ \E ok \in BOOLEAN : final_run_once(ok)

WorkerStep(w, outcomes) ==
    \/ run_claim_select(w)
    \/ run_claim_deps(w)
    \/ run_claim_update(w)
    \/ \E outcome \in outcomes : run_execute_task(w, outcome)
    \/ run_complete_task(w)

NextRun ==
    \/ SupervisorStep /\ UNCHANGED <<now, ops, limiterVars, gitVars, sweeper>>
    \/ \E w \in WorkerIds : WorkerStep(w, Outcomes) /\ UNCHANGED <<now, limiterVars, gitVars, sweeper>>
    \/ \E ok \in BOOLEAN : background_run_once(ok) /\ UNCHANGED <<now, ops, limiterVars, gitVars, sweeper>>

SpecRun == InitRun /\ [][NextRun]_vars

\* The run in which every execution succeeds and every syntax check of the
\* reconciler passes, under fair scheduling: main() and every worker process
\* that can take a step eventually takes one.
DrainSupervisorStep ==
    \/ \E planned \in Planned : run_planner(planned)
    \/ start_background
    \/ supervisor_get_stats
    \/ supervisor_loop
    \/ final_run_once(TRUE)

NextDrain ==
    \/ DrainSupervisorStep /\ UNCHANGED <<now, ops, limiterVars, gitVars, sweeper>>
    \/ \E w \in WorkerIds : WorkerStep(w, {"success"}) /\ UNCHANGED <<now, limiterVars, gitVars, sweeper>>
    \/ background_run_once(TRUE) /\ UNCHANGED <<now, ops, limiterVars, gitVars, sweeper>>

SpecDrain ==
    /\ InitRun
    /\ [][NextDrain]_vars
    /\ WF_vars(DrainSupervisorStep /\ UNCHANGED <<now, ops, limiterVars, gitVars, sweeper>>)
    /\ \A w \in WorkerIds :
          WF_vars(WorkerStep(w, {"success"}) /\ UNCHANGED <<now, limiterVars, gitVars, sweeper>>)

\* The run with sweeps that take time and workers that can die.  sweeper is
\* where the reconciler's background thread stands: asleep between sweeps, or
\* inside run_once.  The final sweep of main() likewise has a beginning
\* (check_syntax is running) and an end.  Under fair scheduling main(), the
\* thread and every worker process that can take a step eventually take one.

\* background_loop: self.run_once() is entered.
sweep_begin ==
    /\ supervisor.started
    /\ supervisor.pc # "exited"
    /\ sweeper = "sleep"
    /\ sweeper' = "sweep"
    /\ UNCHANGED <<tasks, supervisor, worker, call, reconciler, ops>>

\* background_loop: run_once ends in the AttributeError, which the loop
\* swallows; time.sleep(interval).
sweep_end(ok) ==
    /\ supervisor.pc # "exited"
    /\ sweeper = "sweep"
    /\ RunOnceBody(ok)
    /\ sweeper' = "sleep"
    /\ UNCHANGED <<supervisor, worker, call, reconciler, ops>>

\* main(): reconciler.run_once() is entered after the loop.
final_sweep_begin ==
    /\ supervisor.pc = "final"
    /\ supervisor' = [supervisor EXCEPT !.pc = "final_sweep"]
    /\ UNCHANGED <<tasks, worker, call, reconciler, ops, sweeper>>

\* main(): that run_once ends in the AttributeError, which nothing catches.
final_sweep_end(ok) ==
    /\ supervisor.pc = "final_sweep"
    /\ RunOnceBody(ok)
    /\ supervisor' = Uncaught(supervisor)
    /\ UNCHANGED <<worker, call, reconciler, ops, sweeper>>

\* A worker process is killed while it executes a task (at most MaxReports
\* executions of a run do not succeed).
worker_dies(w) ==
    /\ worker[w].pc = "exec"
    /\ Reported
    /\ worker' = [worker EXCEPT ![w].pc = "dead"]
    /\ UNCHANGED <<tasks, supervisor, call, reconciler, sweeper>>

LiveSupervisorStep ==
    \/ \E planned \in Planned : run_planner(planned) /\ UNCHANGED <<ops, sweeper>>
    \/ start_background /\ UNCHANGED <<ops, sweeper>>
    \/ supervisor_get_stats /\ UNCHANGED <<ops, sweeper>>
    \/ supervisor_loop /\ UNCHANGED <<ops, sweeper>>
    \/ final_sweep_begin
    \/ \E ok \in BOOLEAN : final_sweep_end(ok)

SweeperStep ==
    \/ sweep_begin
    \/ \E ok \in BOOLEAN : sweep_end(ok)

NextLive ==
    \/ LiveSupervisorStep /\ UNCHANGED <<now, limiterVars, gitVars>>
    \/ SweeperStep /\ UNCHANGED <<now, limiterVars, gitVars>>
    \/ \E w \in WorkerIds :
          WorkerStep(w, {"success", "conflict"}) /\ UNCHANGED <<now, limiterVars, gitVars, sweeper>>
    \/ \E w \in WorkerIds : worker_dies(w) /\ UNCHANGED <<now, limiterVars, gitVars>>

SpecLive ==
    /\ InitRun
    /\ [][NextLive]_vars
    /\ WF_vars(LiveSupervisorStep /\ UNCHANGED <<now, limiterVars, gitVars>>)
    /\ WF_vars(SweeperStep /\ UNCHANGED <<now, limiterVars, gitVars>>)
    /\ \A w \in WorkerIds :
          WF_vars(WorkerStep(w, {"success", "conflict"}) /\ UNCHANGED <<now, limiterVars, gitVars, sweeper>>)

\* ---------------------------------------------------------------- claims
Range(f) == {f[i] : i \in DOMAIN f}

\* The step in which claim_task(w) returns task t / returns None after its
\* UPDATE matched no row.
ClaimReturns(w, t) ==
    call[w].pc = "update" /\ call'[w].pc = "idle" /\ call'[w].ret = t

ClaimLoses(w) ==
    call[w].pc = "update" /\ call'[w].pc = "idle" /\ call'[w].ret = None

DepsAllDone(t) ==
    \A d \in tasks[t].depends_on : d \in Rows => tasks[d].status = "done"

IsClaimable(t) == t \in Rows /\ tasks[t].status = "pending" /\ DepsAllDone(t)

\* The tasks whose retries have reached the configured cap while pending.
OverRetried ==
    {t \in Rows : tasks[t].status = "pending" /\ tasks[t].retries >= MAX_RETRIES}

\* C1: every return of a task t by claim_task(w) is one pending -> running
\* transition of t, made for w: a task that is not pending (another worker
\* already took it) is handed to nobody, so no two workers are handed the
\* same pending task.
C1_OneWinnerPerPending ==
    [][\A w \in WorkerIds : \A t \in TaskIds :
          ClaimReturns(w, t) =>
             /\ t \in Rows
             /\ tasks[t].status = "pending"
             /\ tasks'[t].status = "running"
             /\ tasks'[t].assigned_worker = w]_vars

\* C1 witness: one worker has been handed t while another, whose snapshot
\* also put t first, still has its UPDATE on t ahead of it.
C1_Witness ==
    \E w1 \in WorkerIds, w2 \in WorkerIds :
       /\ w1 # w2
       /\ call[w1].pc = "idle" /\ call[w1].ret # None
       /\ tasks[call[w1].ret].status = "running"
       /\ tasks[call[w1].ret].assigned_worker = w1
       /\ call[w2].pc = "update"
       /\ Head(call[w2].ready) = call[w1].ret

\* C2: when the UPDATE of claim_task takes effect on t, no task listed in
\* t.depends_on is in the store with a status other than done.
C2_NoClaimBeforeDepsDone ==
    [][\A w \in WorkerIds : \A t \in TaskIds :
          ClaimReturns(w, t) => DepsAllDone(t)]_vars

\* C3: claim_task does not return None after losing its UPDATE while another
\* candidate of its ready list is still claimable.
C3_NoneOnlyIfNothingClaimable ==
    [][\A w \in WorkerIds :
          ClaimLoses(w) => ~ \E u \in Range(call[w].ready) : IsClaimable(u)]_vars

\* C4: the task claim_task returns has the lowest priority number among the
\* tasks its snapshot found claimable (its ready list).
C4_LowestPriorityFirst ==
    [][\A w \in WorkerIds : \A t \in TaskIds :
          ClaimReturns(w, t) =>
             \A u \in Range(call[w].ready) : tasks[t].priority <= tasks[u].priority]_vars

\* C4 witness: w was handed t although a task inserted before t, never
\* claimed, with no dependencies and a higher priority number, was pending.
C4_Witness ==
    \E w \in WorkerIds, u \in Rows :
       /\ call[w].ret # None
       /\ ops = 0
       /\ tasks[call[w].ret].status = "running"
       /\ tasks[u].status = "pending"
       /\ tasks[u].depends_on = {}
       /\ tasks[u].id < tasks[call[w].ret].id
       /\ tasks[u].priority > tasks[call[w].ret].priority

\* C5: among the claimable tasks of the snapshot that have the priority of
\* the returned task, the returned task is the one inserted first.
C5_TiesByInsertionOrder ==
    [][\A w \in WorkerIds : \A t \in TaskIds :
          ClaimReturns(w, t) =>
             \A u \in Range(call[w].ready) :
                tasks[u].priority = tasks[t].priority => tasks[t].id <= tasks[u].id]_vars

\* C6: a running task always has an assigned_worker and a started_at, and
\* the step in which claim_task(w) returns t leaves t assigned to w with its
\* branch_name set.
C6_RunningHasWorkerAndStart ==
    /\ [](\A t \in Rows :
             tasks[t].status = "running" =>
                tasks[t].assigned_worker # NULL /\ tasks[t].started_at # NULL)
    /\ [][\A w \in WorkerIds : \A t \in TaskIds :
             ClaimReturns(w, t) =>
                /\ tasks'[t].assigned_worker = w
                /\ tasks'[t].branch_name = BranchName(t)
                /\ tasks'[t].started_at = now]_vars

\* C6 witness: a task that failed once is running again under its worker.
C6_Witness ==
    \E w \in WorkerIds :
       /\ call[w].ret # None
       /\ tasks[call[w].ret].status = "running"
       /\ tasks[call[w].ret].assigned_worker = w
       /\ tasks[call[w].ret].retries = 1

\* C7: fail_task(t, e) on a running task leaves t pending with error e,
\* started_at null and retries one higher, and every other row as it was.
C7_FailRequeues ==
    [][\A t \in Rows : \A e \in Errors :
          (tasks[t].status = "running" /\ fail_task(t, e)) =>
             /\ tasks'[t].status = "pending"
             /\ tasks'[t].error = e
             /\ tasks'[t].started_at = NULL
             /\ tasks'[t].retries = tasks[t].retries + 1
             /\ DOMAIN tasks' = Rows
             /\ \A u \in Rows \ {t} : tasks'[u] = tasks[u]]_vars

\* C7 witness: a claimed task is back in pending after one failure, next to
\* another row.
C7_Witness ==
    \E t \in Rows :
       /\ tasks[t].status = "pending"
       /\ tasks[t].assigned_worker # NULL
       /\ tasks[t].retries = 1
       /\ tasks[t].error # NullText
       /\ tasks[t].started_at = NULL
       /\ Rows # {t}

\* C8: no step lowers the retries of a task (or removes the task).
C8_RetriesNeverDecrease ==
    [][\A t \in Rows : t \in DOMAIN tasks' /\ tasks'[t].retries >= tasks[t].retries]_vars

\* C8 witness: a task that failed has since been completed, and a sweep has
\* run.
C8_Witness ==
    \E t \in Rows :
       /\ tasks[t].retries >= 1
       /\ tasks[t].status = "done"
       /\ reconciler >= 1

\* C9: a sweep of the reconciler leaves no task pending with
\* retries >= MAX_RETRIES: it promotes each to fix_needed (if fail_task
\* refused to re-queue at the cap there would be none to promote).
C9_SweepPromotesOverRetried ==
    [][reconciler' = reconciler + 1 =>
          \A t \in OverRetried : tasks'[t].status = "fix_needed"]_vars

\* C10: complete_task(t, r, 'done') on a task that is already done changes
\* neither its status nor its result nor its completed_at.
C10_CompleteIdempotent ==
    [][\A t \in Rows : \A r \in Results :
          (tasks[t].status = "done" /\ complete_task(t, r, "done")) =>
             /\ tasks'[t].status = tasks[t].status
             /\ tasks'[t].result = tasks[t].result
             /\ tasks'[t].completed_at = tasks[t].completed_at]_vars

\* A task that was claimed and has since been reset to pending by fail_task,
\* the call the stall sweep makes for a stalled task.
WasReset(t) ==
    /\ tasks[t].status = "pending"
    /\ tasks[t].assigned_worker # NULL
    /\ tasks[t].started_at = NULL
    /\ tasks[t].retries >= 1

\* C11: a complete_task that arrives for a task after it was reset to
\* pending changes nothing: the task keeps its status, retries,
\* assigned_worker and result.
C11_LateCompleteIsNoOp ==
    [][\A t \in Rows : \A r \in Results :
          (WasReset(t) /\ complete_task(t, r, "done")) =>
             /\ tasks'[t].status = tasks[t].status
             /\ tasks'[t].retries = tasks[t].retries
             /\ tasks'[t].assigned_worker = tasks[t].assigned_worker
             /\ tasks'[t].result = tasks[t].result]_vars

\* The running tasks whose age exceeds the worker timeout.
Stalled ==
    {t \in Rows : tasks[t].status = "running" /\ now - tasks[t].started_at > StallAfter}

\* C12: one sweep returns every stalled task to pending with retries one
\* higher and leaves the other running tasks as they were.
C12_SweepResetsStalled ==
    [][reconciler' = reconciler + 1 =>
          \A t \in Rows :
             tasks[t].status = "running" =>
                IF t \in Stalled
                THEN /\ tasks'[t].status = "pending"
                     /\ tasks'[t].retries = tasks[t].retries + 1
                ELSE tasks'[t] = tasks[t]]_vars

FixNeeded == {t \in Rows : tasks[t].status = "fix_needed"}

\* C13: one sweep leaves every task that was fix_needed at its start
\* replaced, and adds one pending priority-1 task for each.
C13_SweepReplacesFixNeeded ==
    [][reconciler' = reconciler + 1 =>
          /\ \A t \in FixNeeded : tasks'[t].status = "replaced"
          /\ Cardinality({u \in (DOMAIN tasks') \ Rows :
                             /\ tasks'[u].status = "pending"
                             /\ tasks'[u].priority = FIX_PRIORITY})
                >= Cardinality(FixNeeded)]_vars

\* C14: mark_fix_needed on a task that is not running leaves the status of
\* that task as it was.
C14_MarkFixNeededOnlyFromRunning ==
    [][\A t \in Rows : \A e \in Errors :
          (tasks[t].status # "running" /\ mark_fix_needed(t, e)) =>
             tasks'[t].status = tasks[t].status]_vars

\* C15: once a task is done or replaced no step changes its status.
C15_DoneAndReplacedTerminal ==
    [][\A t \in Rows :
          tasks[t].status \in {"done", "replaced"} =>
             t \in DOMAIN tasks' /\ tasks'[t].status = tasks[t].status]_vars

\* C16: the reservations granted in any window of 60 s (a window that
\* reaches back less than 60 s from its latest reservation) number at most
\* Rpm: of any Rpm + 1 consecutive reservations the first and the last are a
\* full window apart.
C16_AtMostRpmPerWindow ==
    \A i, j \in DOMAIN limiter.granted :
       j - i >= Rpm => limiter.granted[j] - limiter.granted[i] >= WindowTicks

\* C16 witness: Rpm + 1 reservations have been granted, and a caller that
\* found the window full is in its retry sleep.
C16_Witness ==
    /\ Len(limiter.granted) = Rpm + 1
    /\ Len(LiveTimestamps(limiter.timestamps, limiter.time)) = Rpm
    /\ \E w \in WorkerIds : throttle[w].pc = "retry_sleep"

\* C17: a process holds the limiter's lock only between its flock and its
\* unlock: never in the retry sleep, never in the jitter sleep.
C17_NoLockWhileSleeping ==
    \A w \in WorkerIds :
       throttle[w].pc \in {"retry_sleep", "jitter_sleep"} => limiter.lock # w

\* C17 witness: one caller sleeps after its reservation, another sleeps
\* before its retry, and the lock is free.
C17_Witness ==
    \E w1 \in WorkerIds, w2 \in WorkerIds :
       /\ throttle[w1].pc = "jitter_sleep"
       /\ throttle[w2].pc = "retry_sleep"
       /\ limiter.lock = NULL

InGitSection(w) == job[w].pc \in {"init_locked", "branch_locked", "commit_locked"}

\* C18: at most one worker is inside init_git_repo, setup_branch or
\* commit_and_merge, and the workspace lock is held exactly by the worker
\* that is inside one: every exit, a raising git command included, has
\* released it.
C18_GitSectionsExclusive ==
    /\ Cardinality({w \in WorkerIds : InGitSection(w)}) <= 1
    /\ \A w \in WorkerIds : InGitSection(w) <=> repo.lock = w

\* C18 witness: a worker has left setup_branch through the exception of
\* git checkout -b, and another worker is inside a section.
C18_Witness ==
    \E w1 \in WorkerIds, w2 \in WorkerIds :
       /\ job[w1].pc = "failed" /\ job[w1].written = {}
       /\ InGitSection(w2)
       /\ repo.lock = w2

\* C19: when a task is completed, every file of its result is on main.
C19_DoneFilesOnTrunk ==
    [][\A w \in WorkerIds :
          (job[w].pc = "merged" /\ job'[w].pc = "done") =>
             \A p \in job[w].written : repo.branches[Trunk][p] # NULL]_vars

\* C20: the commit of commit_and_merge for a worker's task goes onto the
\* branch of that task and holds only what that worker wrote.
C20_CommitOnOwnBranch ==
    [][\A w \in WorkerIds :
          (job[w].pc = "commit_locked" /\ job'[w].pc # "commit_locked" /\ Dirty(repo) # {}) =>
             /\ repo.head = BranchOf(w)
             /\ \A p \in Dirty(repo) : repo.wt[p] = w /\ p \in job[w].written]_vars

\* C21: a file refused by the syntax check is never committed, neither to a
\* task branch nor to main (the worker that wrote it makes no commit for the
\* task and hands the task back with fail_task).
C21_RejectedNeverCommitted ==
    \A b \in DOMAIN repo.branches : \A p \in Paths :
       ~IsRejected(repo.branches[b][p])

\* The tree of main at the moment commit_and_merge attempts its merge: after
\* git add -A, git commit and git checkout main.
TrunkBeforeMerge(r) == git_checkout(git_commit_all(r), Trunk).branches[Trunk]

\* C22: when the merge of commit_and_merge fails, main is left as it was
\* when the merge was attempted, the task goes to fix_needed, and the worker
\* never completes it as done.
C22_FailedMergeLeavesTrunk ==
    [][\A w \in WorkerIds :
          /\ (/\ job[w].pc = "commit_locked" /\ job'[w].pc # "commit_locked"
              /\ ~CommitAndMergeBody(repo, BranchOf(w)).merged) =>
                 /\ repo'.branches[Trunk] = TrunkBeforeMerge(repo)
                 /\ job'[w].pc = "fix_needed"
          /\ job[w].pc = "fix_needed" => job'[w].pc = "fix_needed"]_vars

\* C22 witness: a merge has failed on a conflict: main and the task branch
\* hold different versions of a file.
C22_Witness ==
    \E w \in WorkerIds :
       /\ job[w].pc = "fix_needed"
       /\ BranchOf(w) \in DOMAIN repo.branches
       /\ \E p \in Paths :
             /\ repo.branches[Trunk][p] # NULL
             /\ repo.branches[BranchOf(w)][p] \notin {NULL, repo.branches[Trunk][p]}

\* A worker that is executing task t, or has executed it and is about to
\* complete it.
Holds(w, t) ==
    /\ call[w].ret = t
    /\ \/ worker[w].pc = "exec"
       \/ worker[w].pc = "returned" /\ worker[w].result = "success"

\* execute_task of worker w returns through its exception handler.
Raises(w) ==
    /\ worker[w].pc = "exec"
    /\ worker'[w].pc = "returned"
    /\ worker'[w].result = "failed"

\* C23: when a step of execute_task raises, the worker logs an error event
\* and calls fail_task: the task is pending again with one more retry, and
\* no task is running unless the worker assigned to it is still at work on it.
C23_RaiseRequeues ==
    /\ [][\A w \in WorkerIds :
             Raises(w) =>
                LET t == call[w].ret
                IN /\ worker'[w].event = "error"
                   /\ tasks'[t].status = "pending"
                   /\ tasks'[t].retries = tasks[t].retries + 1
                   /\ tasks'[t].started_at = NULL]_vars
    /\ [](\A t \in Rows :
             tasks[t].status = "running" => Holds(tasks[t].assigned_worker, t))

\* C23 witness: a worker whose execution raised is back in its loop, and the
\* task it gave up is pending with a retry counted.
C23_Witness ==
    \E w \in WorkerIds :
       /\ worker[w].pc = "claim"
       /\ call[w].ret # None
       /\ call[w].ret \in Rows
       /\ tasks[call[w].ret].status = "pending"
       /\ tasks[call[w].ret].retries = 1
       /\ tasks[call[w].ret].assigned_worker = w

\* The worker processes that are alive, and those a step has started.
Live == {w \in WorkerIds : worker[w].pc \in {"claim", "exec", "returned"}}
Spawned == {w \in WorkerIds : worker[w].pc = "off" /\ worker'[w].pc # "off"}

\* C24: in the supervisor loop at most MAX_WORKERS worker processes are
\* alive, and one pass of the loop spawns at most
\* min(MAX_WORKERS - live, pending) workers.
C24_WorkerCap ==
    /\ [](Cardinality(Live) <= supervisor.max_workers)
    /\ [][Cardinality(Spawned) <=
             Min(supervisor.max_workers - Cardinality(Live), supervisor.stats.pending)]_vars

\* C24 witness: the cap is lower than the number of process slots, the
\* supervisor has passed through its loop with a task still pending, and
\* the only worker alive is the one the cap allows.
C24_Witness ==
    /\ supervisor.max_workers < NumWorkers
    /\ supervisor.pc = "stats"
    /\ supervisor.stats.pending > 0
    /\ supervisor.stats.running > 0
    /\ Cardinality(Live) = supervisor.max_workers
    /\ Cardinality(supervisor.running_workers) = supervisor.max_workers

\* Every dependency names a task of the table, and no task depends on
\* itself through any chain.
WellPlanned ==
    /\ \A t \in Rows : tasks[t].depends_on \subseteq Rows
    /\ \E rank \in [Rows -> 1..Cardinality(Rows)] :
          \A t \in Rows : \A d \in tasks[t].depends_on : rank[d] < rank[t]

\* main() has ended, having seen nothing pending and nothing running, and
\* every task is done.
Drained ==
    /\ supervisor.pc = "exited"
    /\ supervisor.stats.pending = 0 /\ supervisor.stats.running = 0
    /\ \A t \in Rows : tasks[t].status = "done"

\* C25: full drain.  When the planned tasks depend only on each other and
\* without a cycle, and every execution succeeds, fair scheduling brings the
\* supervisor to see pending = 0 and running = 0 and to end with every task
\* done.
C25_FullDrain ==
    (supervisor.plan = "success" /\ WellPlanned) ~> Drained

\* C25 witness: a drained run of two tasks, one depending on the other.
C25_Witness ==
    /\ Drained
    /\ Cardinality(Rows) = 2
    /\ \E t \in Rows : tasks[t].depends_on # {}

\* C26: a run whose planning succeeded and whose queue came to rest has
\* produced the final archive by the time main() ends (and produces it only
\* after the final sweep).
C26_ArchiveProduced ==
    (supervisor.pc = "exited" /\ supervisor.plan = "success") => supervisor.archive

C28_PlannerErrorExits ==
    supervisor.plan = "error" =>
       /\ supervisor.pc = "exited"
       /\ supervisor.exit_code = 1
       /\ ~supervisor.started
       /\ reconciler = 0
       /\ supervisor.running_workers = {}
       /\ \A w \in WorkerIds : worker[w] = NoWorker
       /\ Rows = {}

\* C28 witness: the planner has returned an error and main() has exited.
C28_Witness ==
    /\ supervisor.plan = "error"
    /\ supervisor.pc = "exited"
    /\ supervisor.exit_code = 1

\* The first element of a batch that carries the given id.
FirstWith(batch, task_id) ==
    batch[CHOOSE i \in 1..Len(batch) :
             /\ batch[i].task_id = task_id
             /\ \A j \in 1..(i - 1) : batch[j].task_id # task_id]

\* C29: add_tasks_batch ignores conflicts.  An element whose id is already
\* in the table, or was carried by an earlier element, inserts nothing and
\* the row with that id stays as it is; every other element becomes a
\* pending row.
C29_BatchIgnoresConflicts ==
    [][\A b \in Batches :
          (call' = call /\ now' = now /\ tasks' = BatchInsert(tasks, b)) =>
             /\ \A t \in Rows : tasks'[t] = tasks[t]
             /\ DOMAIN tasks' = Rows \cup {b[i].task_id : i \in 1..Len(b)}
             /\ \A t \in (DOMAIN tasks') \ Rows :
                   /\ tasks'[t].status = "pending"
                   /\ tasks'[t].retries = 0
                   /\ tasks'[t].priority = FirstWith(b, t).priority
                   /\ tasks'[t].depends_on = FirstWith(b, t).depends_on]_vars

\* C29 witness: a batch has inserted a second task after the first one was
\* claimed; every batch names the first task, which was running by then.
C29_Witness ==
    /\ Cardinality(Rows) = 2
    /\ \E t, u \in Rows :
          /\ tasks[t].id = 1 /\ tasks[u].id = 2
          /\ tasks[t].status = "running"
          /\ tasks[t].started_at < tasks[u].created_at

\* The status changes the task lifecycle allows.
AllowedEdges ==
    {<<"pending", "running">>, <<"running", "done">>, <<"running", "pending">>,
     <<"running", "fix_needed">>, <<"fix_needed", "replaced">>}

\* C30: in a run of the supervisor, its workers and the reconciler, every
\* change of a task's status is pending to running, running to done,
\* running to pending, running to fix_needed or fix_needed to replaced.
C30_OnlyAllowedEdges ==
    [][\A t \in Rows :
          (t \in DOMAIN tasks' /\ tasks'[t].status # tasks[t].status) =>
             <<tasks[t].status, tasks'[t].status>> \in AllowedEdges]_vars

\* C30 witness: one task has been claimed, failed and handed back, another
\* has gone to fix_needed, while two workers were at work.
C30_Witness ==
    /\ \E t \in Rows : tasks[t].status = "pending" /\ tasks[t].retries > 0
    /\ \E t \in Rows : tasks[t].status = "fix_needed"
    /\ supervisor.max_workers = 2
    /\ Cardinality(Live) = 2

\* The tasks reachable from the set S along depends_on in at most n steps.
RECURSIVE DependsClosure(_, _)
DependsClosure(S, n) ==
    IF n = 0 THEN S
    ELSE DependsClosure(S \cup UNION {tasks[t].depends_on : t \in S \cap Rows}, n - 1)

\* A task that depends on itself through some chain of depends_on.
InCycle(t) ==
    t \in DependsClosure(tasks[t].depends_on, Cardinality(Rows))

\* C31: a task on a cycle of depends_on stays pending and is never returned
\* by claim_task, whatever the supervisor, the workers and the reconciler do.
C31_CycleNeverClaimed ==
    \A t \in Rows :
       InCycle(t) =>
          /\ tasks[t].status = "pending"
          /\ \A w \in WorkerIds : call[w].ret # t

\* C31 witness: two tasks depend on each other, and a worker that was
\* spawned for them has come back from claim_task with nothing and ended.
C31_Witness ==
    /\ \E t \in Rows : InCycle(t)
    /\ supervisor.stats.pending = 2
    /\ \E w \in WorkerIds : worker[w].pc = "dead" /\ call[w].ret = None

\* C32: a task whose depends_on names an id that no task has is never
\* returned by claim_task.
C32_MissingDependencyBlocks ==
    \A w \in WorkerIds : \A t \in Rows :
       call[w].ret = t => tasks[t].depends_on \subseteq Rows

\* C34: the worker processes in running_workers that are alive have
\* pairwise different worker_id values.
C34_DistinctWorkerIds ==
    \A w1, w2 \in supervisor.running_workers \cap Live :
       w1 # w2 => worker[w1].name # worker[w2].name

\* C35: two different tasks that are running at the same time were given
\* different branch names at claim.
C35_DistinctBranchNames ==
    \A t, u \in Rows :
       (t # u /\ tasks[t].status = "running" /\ tasks[u].status = "running") =>
          tasks[t].branch_name # tasks[u].branch_name

\* stats()['failed']
StatsFailed == Cardinality({t \in Rows : tasks[t].status = "failed"})

\* C38: no step of the queue, the workers, the reconciler or the supervisor
\* writes the status failed: stats()['failed'] is 0 in every state.
C38_NeverFailed == StatsFailed = 0

\* C38 witness: an execution has raised and fail_task has handed the task
\* back, and another task has gone to fix_needed.
C38_Witness ==
    /\ \E t \in Rows : tasks[t].status = "pending" /\ tasks[t].error # NullText
    /\ \E t \in Rows : tasks[t].status = "fix_needed"
    /\ StatsFailed = 0

C36_SweepsNeverOverlap ==
    ~(supervisor.pc = "final_sweep" /\ sweeper = "sweep")

\* A task that is running while no live worker process is executing it.
Orphaned(t) ==
    /\ t \in Rows
    /\ tasks[t].status = "running"
    /\ \A w \in WorkerIds : ~Holds(w, t)

\* C33: a task left running by a worker process that died is eventually
\* taken out of running by the reconciler's stall sweep.
C33_OrphanRecovered ==
    \A t \in TaskIds : Orphaned(t) ~> ~Orphaned(t)

\* A pending task that waits for a task that hit a merge conflict.
WaitsForConflict(u) ==
    /\ u \in Rows
    /\ tasks[u].status = "pending"
    /\ \E t \in tasks[u].depends_on \cap Rows :
          tasks[t].status \in {"fix_needed", "replaced"}

\* C39: a task that depends on a task that hit a merge conflict still gets
\* to run: the reconciler replaces the conflicted task by a Fix task, and
\* the dependent is eventually claimed.
C39_DependentsOfConflictRun ==
    \A u \in TaskIds : WaitsForConflict(u) ~> (u \in Rows /\ tasks[u].status # "pending")
====
